---- MODULE Spec2Model ----
(***************************************************************************)
(* Model of ml_tm_utils_pub: the tile-pyramid traversal of                 *)
(* utils_geodata.get_tile_pyramid (an explicit LIFO stack over TMS tiles), *)
(* its helper _get_quadrant_tiles, the geojson canonicaliser               *)
(* get_stripped_geojson_tasks and the area aggregation of                  *)
(* utils_database.get_total_tiles_building_area.                           *)
(***************************************************************************)
EXTENDS Integers, Sequences, FiniteSets, TLC

VARIABLES
    pc,             \* position of the get_tile_pyramid call: start/loop/done/error
    run,            \* 1 for the first invocation on the input, 2 for the second
    top_tile_dict,  \* argument top_tile_dict: [x, y, z]
    max_zoom,       \* argument max_zoom
    ret_format,     \* argument ret_format, a template split in pieces
    order,          \* order in which the four children are put on the stack
    stack,          \* the LifoQueue; the top is the last element
    desired_tiles,  \* the list the call returns
    temp_tile,      \* the tile popped last
    quad_tile,      \* the argument of the last _get_quadrant_tiles call
    quadrant_tiles, \* the list that call returned
    pops,           \* number of stack.get() calls so far
    quad_calls,     \* number of _get_quadrant_tiles calls so far
    first_result,   \* what the first invocation returned (run = 2)
    geo_pc,         \* position of the geojson comparison
    text_data_1,    \* first TM project document, as json.loads reads it
    text_data_2,    \* second TM project document
    stripped_1,     \* get_stripped_geojson_tasks(text_data_1)
    stripped_2,     \* get_stripped_geojson_tasks(text_data_2)
    geoj_equal,     \* _test_geoj_equality(text_data_1, text_data_2)
    db_pc,          \* idle until get_total_tiles_building_area has returned
    session,        \* the rows of table tile_pred_buildings
    tile_ind_list,  \* argument tile_ind_list
    total_area,     \* the pair get_total_tiles_building_area returned
    px_pc,          \* idle, or start/done of a get_pixel_area call
    latitude,       \* argument latitude, in whole degrees
    pixel_zoom,     \* argument zoom: [kind: int or float, tenths: ten times its value]
    pixel_area      \* what get_pixel_area returned or raised

pyramid_vars == <<pc, run, top_tile_dict, max_zoom, ret_format, order, stack,
                  desired_tiles, temp_tile, quad_tile, quadrant_tiles, pops,
                  quad_calls, first_result>>
geo_vars == <<geo_pc, text_data_1, text_data_2, stripped_1, stripped_2, geoj_equal>>
db_vars == <<db_pc, session, tile_ind_list, total_area>>
px_vars == <<px_pc, latitude, pixel_zoom, pixel_area>>
vars == <<pyramid_vars, geo_vars, db_vars, px_vars>>

----------------------------------------------------------------------------
(* Bounds of the model *)

\* largest zoom of a top tile drawn exhaustively
MaxTopZoom == 1
\* largest max_zoom drawn for those tiles
MaxMaxZoom == 3

(* Program constants *)

\* default of the max_zoom parameter
DefaultMaxZoom == 18
\* largest OSM zoom level the package documents
MaxOsmZoom == 19
\* the interval of latitudes get_pixel_area accepts
MinLatitude == -90
MaxLatitude == 90
\* 156543.03 m, the width of a pixel at the equator at zoom 0, in centimetres
EquatorPixelWidthCm == 15654303

----------------------------------------------------------------------------
(* Values *)

NoTile == [x |-> -1, y |-> -1, zoom |-> -1]
\* what a failed assert of from_tms raises
AssertionError == [error |-> "AssertionError"]

\* ret_format='{z}-{x}-{y}', as the pieces str.format walks through
DefaultFormat == <<"{z}", "-", "{x}", "-", "{y}">>
\* another template a caller may pass
SlashFormat == <<"{z}", "/", "{x}", "/", "{y}">>
Formats == {DefaultFormat, SlashFormat}

\* the order of the list _get_quadrant_tiles returns: UL, LL, UR, LR
ListOrder == <<1, 2, 3, 4>>
Orders == {o \in [1..4 -> 1..4] : \A i, j \in 1..4 : i # j => o[i] # o[j]}

SeqToSet(s) == {s[i] : i \in 1..Len(s)}

----------------------------------------------------------------------------
(* pygeotile's Tile.from_tms as the package calls it: the tile, or an      *)
(* AssertionError when x or y is not in [0, 2^zoom - 1]. For zoom < 0 the  *)
(* upper limit 2^zoom - 1 is negative and no x passes.                     *)

TmsInRange(v, zoom) == zoom >= 0 /\ 0 <= v /\ v <= 2^zoom - 1

from_tms(x, y, zoom) ==
    IF TmsInRange(x, zoom) /\ TmsInRange(y, zoom)
    THEN [x |-> x, y |-> y, zoom |-> zoom]
    ELSE AssertionError

\* _get_quadrant_tiles(tile): the four tiles one zoom higher
QuadrantTilesLLTypo(tile) ==
    LET ul == <<tile.x * 2, tile.y * 2>>
    IN  << from_tms(ul[1], ul[2], tile.zoom + 1),
           from_tms(ul[1], ul[2], tile.zoom + 1),
           from_tms(ul[1] + 1, ul[2], tile.zoom + 1),
           from_tms(ul[1] + 1, ul[2] + 1, tile.zoom + 1) >>

QuadrantTilesNoLR(tile) ==
    LET ul == <<tile.x * 2, tile.y * 2>>
    IN  << from_tms(ul[1], ul[2], tile.zoom + 1),
           from_tms(ul[1], ul[2] + 1, tile.zoom + 1),
           from_tms(ul[1] + 1, ul[2], tile.zoom + 1) >>

QuadrantTilesSameColumn(tile) ==
    LET ul == <<tile.x * 2, tile.y * 2>>
    IN  << from_tms(ul[1], ul[2], tile.zoom + 1),
           from_tms(ul[1], ul[2] + 1, tile.zoom + 1),
           from_tms(ul[1], ul[2], tile.zoom + 1),
           from_tms(ul[1], ul[2] + 1, tile.zoom + 1) >>

_get_quadrant_tiles(tile) ==
    LET ul == <<tile.x * 2, tile.y * 2>>
    IN  << from_tms(ul[1], ul[2], tile.zoom + 1),            \* UL
           from_tms(ul[1], ul[2] + 1, tile.zoom + 1),        \* LL
           from_tms(ul[1] + 1, ul[2], tile.zoom + 1),        \* UR
           from_tms(ul[1] + 1, ul[2] + 1, tile.zoom + 1) >>  \* LR

\* ret_format.format(**tile_dict): every field replaced by str() of its value
FormatPiece(piece, tile_dict) ==
    CASE piece = "{x}" -> ToString(tile_dict.x)
      [] piece = "{y}" -> ToString(tile_dict.y)
      [] piece = "{z}" -> ToString(tile_dict.z)
      [] OTHER -> piece

RECURSIVE FormatFrom(_, _, _)
FormatFrom(fmt, i, tile_dict) ==
    IF i > Len(fmt) THEN ""
    ELSE FormatPiece(fmt[i], tile_dict) \o FormatFrom(fmt, i + 1, tile_dict)

Format(fmt, tile_dict) == FormatFrom(fmt, 1, tile_dict)

\* the test of line 139: has the desired zoom been reached
ReachedMaxZoomStrict(tile, mz) == tile.zoom > mz
ReachedMaxZoom(tile, mz) == tile.zoom >= mz

----------------------------------------------------------------------------
(* Python str values are sequences of one-character strings.               *)

\* the characters the documents below are written with, and their code points
CharTable ==
    <<"\n", " ", "\"", "'", ",", "0", "1", "2", "3", "4", "5", "6", "7",
          "8", "9", ":", "D", "I", "P", "[", "]", "a", "c", "d", "e",
          "g", "i", "k", "m", "n", "o", "p", "r", "s", "t", "y", "{", "}">>
CodeTable ==
    <<10, 32, 34, 39, 44, 48, 49, 50, 51, 52, 53, 54, 55, 56, 57,
      58, 68, 73, 80, 91, 93, 97, 99, 100, 101,
      103, 105, 107, 109, 110, 111, 112, 114, 115, 116, 121, 123, 125>>
CodePoints ==
    [c \in SeqToSet(CharTable) |->
        CodeTable[CHOOSE i \in 1..Len(CharTable) : CharTable[i] = c]]
ord(c) == CodePoints[c]

\* the first position in lo..hi at which a and b differ, or hi + 1
RECURSIVE FirstDifference(_, _, _, _)
FirstDifference(a, b, lo, hi) ==
    IF lo > hi THEN lo
    ELSE IF lo = hi THEN (IF a[lo] = b[lo] THEN lo + 1 ELSE lo)
    ELSE LET mid == (lo + hi) \div 2
             left == FirstDifference(a, b, lo, mid)
         IN  IF left <= mid THEN left ELSE FirstDifference(a, b, mid + 1, hi)

\* str < str as Python compares: at the first position where they differ the
\* code point decides, and a proper prefix is smaller
StrLess(a, b) ==
    LET shorter == IF Len(a) < Len(b) THEN Len(a) ELSE Len(b)
        k == FirstDifference(a, b, 1, shorter)
    IN  IF k > shorter THEN Len(a) < Len(b) ELSE ord(a[k]) < ord(b[k])

\* str(n) of an int n >= 0
RECURSIVE StrInt(_)
StrInt(n) ==
    LET digit == <<"0", "1", "2", "3", "4", "5", "6", "7", "8", "9">>[(n % 10) + 1]
    IN  IF n < 10 THEN <<digit>> ELSE Append(StrInt(n \div 10), digit)

\* str(list of int): "[1, 2]"
RECURSIVE StrItems(_)
StrItems(l) ==
    IF l = <<>> THEN <<>>
    ELSE IF Len(l) = 1 THEN StrInt(l[1])
    ELSE StrInt(l[1]) \o <<",", " ">> \o StrItems(Tail(l))

StrList(l) == <<"[">> \o StrItems(l) \o <<"]">>

\* str(dict) of a geometry {'type': ..., 'coordinates': [...]}
StrGeometry(g) ==
    <<"{", "'", "t", "y", "p", "e", "'", ":", " ", "'">>
      \o g.type \o
    <<"'", ",", " ", "'", "c", "o", "o", "r", "d", "i", "n", "a", "t",
          "e", "s", "'", ":", " ">>
      \o StrList(g.coordinates) \o <<"}">>

\* s.replace(old, new) for one-character old and new
replace(s, old, new) == [i \in 1..Len(s) |-> IF s[i] = old THEN new ELSE s[i]]

\* '{{"taskID": {}, "geometry": {}}}'.format(str(taskId).replace("'", '"'),
\*                                          str(geometry).replace("'", '"'))
StrippedTask(task) ==
    <<"{", "\"", "t", "a", "s", "k", "I", "D", "\"", ":", " ">>
      \o replace(StrInt(task.properties.taskId), "'", "\"") \o
    <<",", " ", "\"", "g", "e", "o", "m", "e", "t", "r", "y", "\"", ":",
          " ">>
      \o replace(StrGeometry(task.geometry), "'", "\"") \o <<"}">>

\* sorted(list of str): insertion into the sorted rest
RECURSIVE Insert(_, _)
Insert(line, l) ==
    IF l = <<>> THEN <<line>>
    ELSE IF StrLess(l[1], line) THEN <<l[1]>> \o Insert(line, Tail(l))
    ELSE <<line>> \o l

RECURSIVE InsertionSort(_)
InsertionSort(l) == IF l = <<>> THEN <<>> ELSE Insert(l[1], InsertionSort(Tail(l)))

Unsorted(l) == l
sorted(l) == InsertionSort(l)

\* sep.join(list of str)
RECURSIVE join(_, _)
join(sep, l) ==
    IF l = <<>> THEN <<>>
    ELSE IF Len(l) = 1 THEN l[1]
    ELSE l[1] \o sep \o join(sep, Tail(l))

ValueError == <<"ValueError">>
NotRun == <<"not run">>

\* get_stripped_geojson_tasks on the dict json.loads(text_data) gives
get_stripped_geojson_tasks(json_dict) ==
    IF ~json_dict.has_tasks THEN ValueError
    ELSE LET features == json_dict.tasks.features
             stripped_tasks == [i \in 1..Len(features) |-> StrippedTask(features[i])]
         IN  join(<<"\n">>, sorted(stripped_tasks))

\* _get_md5_checksum: a digest of the encoded characters.  MD5 itself is not
\* computed; the digest here is a function of the string with a small range,
\* so that only "equal strings have equal digests" can be relied on.
RECURSIVE DigestRange(_, _, _)
DigestRange(s, lo, hi) ==
    IF lo > hi THEN 0
    ELSE IF lo = hi THEN ord(s[lo]) * ((lo % 7) + 1)
    ELSE LET mid == (lo + hi) \div 2
         IN  DigestRange(s, lo, mid) + DigestRange(s, mid + 1, hi)

_get_md5_checksum(str_obj) == DigestRange(str_obj, 1, Len(str_obj)) % 251

\* _test_geoj_equality: "True", "False", or the ValueError of either strip
_test_geoj_equality(geojson_1, geojson_2) ==
    LET s1 == get_stripped_geojson_tasks(geojson_1)
        s2 == get_stripped_geojson_tasks(geojson_2)
    IN  IF s1 = ValueError \/ s2 = ValueError THEN "ValueError"
        ELSE IF _get_md5_checksum(s1) = _get_md5_checksum(s2) THEN "True"
        ELSE "False"

----------------------------------------------------------------------------
(* utils_database: rows of TilePredBA and get_total_tiles_building_area.   *)
(* Areas are counted in hundredths of a square metre, as integers.         *)

Row(id, tile_index, ml, osm) ==
    [id |-> id, tile_index |-> tile_index,
     building_area_ml |-> ml, building_area_osm |-> osm]

RECURSIVE SumMl(_)
SumMl(rows) ==
    IF rows = {} THEN 0
    ELSE LET row == CHOOSE r \in rows : TRUE
         IN  row.building_area_ml + SumMl(rows \ {row})

RECURSIVE SumOsm(_)
SumOsm(rows) ==
    IF rows = {} THEN 0
    ELSE LET row == CHOOSE r \in rows : TRUE
         IN  row.building_area_osm + SumOsm(rows \ {row})

\* session.query(TilePredBA).filter(TilePredBA.tile_index.in_(tile_ind_list))
TotalOfAllRows(ind_list, rows) == <<SumMl(rows), SumOsm(rows)>>

get_total_tiles_building_area(ind_list, rows) ==
    LET matched == {row \in rows : row.tile_index \in SeqToSet(ind_list)}
    IN  <<SumMl(matched), SumOsm(matched)>>

----------------------------------------------------------------------------
(* get_pixel_area.  A zoom is [kind, tenths]: the int 7 is ["int", 70], the *)
(* float 1.5 is ["float", 15].  Widths are whole centimetres; the square of *)
(* a width does not fit a machine integer and is kept as [square_of_cm].    *)

IntZoom(z) == [kind |-> "int", tenths |-> 10 * z]
FloatZoom(tenths) == [kind |-> "float", tenths |-> tenths]

\* twice np.cos(np.deg2rad(latitude)), for the latitudes where that is whole
TwiceCos(lat) ==
    CASE lat = 0 -> 2
      [] lat = 60 \/ lat = -60 -> 1
      [] lat = 90 \/ lat = -90 -> 0

PixelValueError(about) == [kind |-> "ValueError", about |-> about]
NoPixelArea == [kind |-> "none"]

\* the test of line 272
ZoomOutOfBoundsOffByOne(z) == z.tenths < 0 \/ z.tenths > 10 * (MaxOsmZoom + 1)
ZoomOutOfBounds(z) == z.tenths < 0 \/ z.tenths > 10 * MaxOsmZoom

get_pixel_area(lat, z) ==
    IF lat < MinLatitude \/ lat > MaxLatitude THEN PixelValueError("latitude bounds")
    ELSE IF z.kind # "int" THEN PixelValueError("zoom type")
    ELSE IF ZoomOutOfBounds(z) THEN PixelValueError("zoom bounds")
    ELSE LET pix_width ==
                 (EquatorPixelWidthCm * TwiceCos(lat)) \div (2 * 2^(z.tenths \div 10))
         IN  [kind |-> "area", square_of_cm |-> pix_width]

----------------------------------------------------------------------------
(* Inputs *)

\* every x or y tried at a zoom: the whole range and one value beyond each end
Coords(z) == IF z < 0 THEN {-1, 0} ELSE -1..(2^z)

SmallDicts ==
    {[x |-> x, y |-> y, z |-> z] : x \in -1..(2^MaxTopZoom), y \in -1..(2^MaxTopZoom),
                                   z \in -1..MaxTopZoom}

SmallInputs ==
    {<<d, mz>> \in SmallDicts \X (0..MaxMaxZoom) :
        d.x \in Coords(d.z) /\ d.y \in Coords(d.z)}

\* the tiles of test_pyramid_of_child_indices and
\* test_database_utils_integration, with the default max_zoom
TestDict16 == [x |-> 5, y |-> 314, z |-> 16]
TestDict17 == [x |-> 1412, y |-> 3520, z |-> 17]
\* a tile beyond the documented zoom range
DeepDict == [x |-> 0, y |-> 1, z |-> MaxOsmZoom + 1]

NamedInputs ==
    {<<TestDict16, DefaultMaxZoom>>, <<TestDict17, DefaultMaxZoom>>,
     <<DeepDict, DefaultMaxZoom>>}

Inputs == SmallInputs \cup NamedInputs

\* largest number of tasks in a TM project document
MaxTasks == 2
\* largest number of rows in a small table
MaxRows == 2
\* longest tile_ind_list passed directly
MaxListLen == 2

SeqsUpTo(S, n) == UNION {[1..k -> S] : k \in 0..n}

\* TM project documents: without "tasks", or with up to MaxTasks features
Geometries ==
    {[type |-> <<"P", "o", "i", "n", "t">>, coordinates |-> c] :
        c \in {<<1, 2>>, <<10, 2>>}}
Tasks == {[properties |-> [taskId |-> i], geometry |-> g] : i \in {2, 10}, g \in Geometries}
MissingTasks == [has_tasks |-> FALSE]
Documents ==
    {MissingTasks} \cup
    {[has_tasks |-> TRUE, tasks |-> [features |-> f]] : f \in SeqsUpTo(Tasks, MaxTasks)}

\* the five rows test_database_utils_integration stores
TestSession ==
    {Row(1, "18-1241-23141", 590, 1000),
     Row(2, "18-2825-7041", 0, 100),
     Row(3, "18-2824-7041", 99, 510),
     Row(4, "18-2824-7040", 0, 0),
     Row(5, "18-2825-7040", 9901, 90)}

\* small tables: for each id no row or one row
RowIndices == {"1-0-0", "1-1-1", "2-0-0"}
RowAreas == {<<0, 100>>, <<99, 510>>}
NoRow == Row(0, "", 0, 0)
RowChoices ==
    {NoRow} \cup {Row(0, t, a[1], a[2]) : t \in RowIndices, a \in RowAreas}
WithIds(f) ==
    {Row(i, f[i].tile_index, f[i].building_area_ml, f[i].building_area_osm) :
        i \in {j \in DOMAIN f : f[j] # NoRow}}
Sessions == {TestSession} \cup {WithIds(f) : f \in [1..MaxRows -> RowChoices]}

\* lists passed directly; "3-0-0" has no row in any table
ListIndices == {"1-0-0", "1-1-1", "3-0-0"}
IndLists == SeqsUpTo(ListIndices, MaxListLen)

\* tiles whose pyramid is fed to the aggregation
DbInputs ==
    {<<TestDict17, DefaultMaxZoom>>,
     <<[x |-> 0, y |-> 0, z |-> 0], 1>>,
     <<[x |-> 1, y |-> 1, z |-> 1], 1>>}

\* latitudes: the ends of the interval, one degree beyond each, and inside
Latitudes == {MinLatitude - 1, MinLatitude, -60, 0, 60, MaxLatitude, MaxLatitude + 1}
\* zooms: every int from one below to one above the interval, and floats
Zooms ==
    {IntZoom(z) : z \in -1..(MaxOsmZoom + 1)} \cup
    {FloatZoom(t) : t \in {-10, 0, 15, 20, 190, 195, 200}}

ValidDict(d) == d.z >= 0 /\ d.z <= MaxOsmZoom /\ TmsInRange(d.x, d.z) /\ TmsInRange(d.y, d.z)

----------------------------------------------------------------------------
(* get_tile_pyramid *)

PyramidInit(inputs, formats) ==
    /\ pc = "start"
    /\ run = 1
    /\ \E inp \in inputs : top_tile_dict = inp[1] /\ max_zoom = inp[2]
    /\ ret_format \in formats
    /\ order = ListOrder
    /\ stack = <<>>
    /\ desired_tiles = <<>>
    /\ temp_tile = NoTile
    /\ quad_tile = NoTile
    /\ quadrant_tiles = <<>>
    /\ pops = 0
    /\ quad_calls = 0
    /\ first_result = <<>>

\* no geojson comparison is made
GeoIdle ==
    /\ geo_pc = "idle"
    /\ text_data_1 = MissingTasks
    /\ text_data_2 = MissingTasks
    /\ stripped_1 = NotRun
    /\ stripped_2 = NotRun
    /\ geoj_equal = "not run"

\* no table is queried
DbIdle ==
    /\ db_pc = "idle"
    /\ session = {}
    /\ tile_ind_list = <<>>
    /\ total_area = <<0, 0>>

\* get_pixel_area is not called
PxIdle ==
    /\ px_pc = "idle"
    /\ latitude = 0
    /\ pixel_zoom = IntZoom(0)
    /\ pixel_area = NoPixelArea

Init == PyramidInit(Inputs, Formats) /\ GeoIdle /\ DbIdle /\ PxIdle

\* stack = LifoQueue(); stack.put(Tile.from_tms(x, y, z)); desired_tiles = []
Call ==
    /\ pc = "start"
    /\ LET t == from_tms(top_tile_dict.x, top_tile_dict.y, top_tile_dict.z)
       IN  IF t = AssertionError
           THEN /\ pc' = "error"
                /\ stack' = <<>>
           ELSE /\ pc' = "loop"
                /\ stack' = <<t>>
    /\ desired_tiles' = <<>>
    /\ UNCHANGED <<run, top_tile_dict, max_zoom, ret_format, order, temp_tile,
                   quad_tile, quadrant_tiles, pops, quad_calls, first_result>>
    /\ UNCHANGED <<geo_vars, db_vars, px_vars>>

\* one iteration that pops a tile at the desired zoom and saves it
LoopEmitSwapsXY ==
    /\ pc = "loop"
    /\ stack # <<>>
    /\ LET t == stack[Len(stack)]
       IN  /\ ReachedMaxZoom(t, max_zoom)
           /\ temp_tile' = t
           /\ stack' = SubSeq(stack, 1, Len(stack) - 1)
           /\ desired_tiles' =
                 Append(desired_tiles,
                        Format(ret_format, [x |-> t.y, y |-> t.x, z |-> t.zoom]))
    /\ pops' = pops + 1
    /\ UNCHANGED <<pc, run, top_tile_dict, max_zoom, ret_format, order,
                   quad_tile, quadrant_tiles, quad_calls, first_result>>
    /\ UNCHANGED <<geo_vars, db_vars, px_vars>>

LoopEmit ==
    /\ pc = "loop"
    /\ stack # <<>>
    /\ LET t == stack[Len(stack)]
       IN  /\ ReachedMaxZoom(t, max_zoom)
           /\ temp_tile' = t
           /\ stack' = SubSeq(stack, 1, Len(stack) - 1)
           /\ desired_tiles' =
                 Append(desired_tiles,
                        Format(ret_format, [x |-> t.x, y |-> t.y, z |-> t.zoom]))
    /\ pops' = pops + 1
    /\ UNCHANGED <<pc, run, top_tile_dict, max_zoom, ret_format, order,
                   quad_tile, quadrant_tiles, quad_calls, first_result>>
    /\ UNCHANGED <<geo_vars, db_vars, px_vars>>

\* one iteration that pops a tile above the desired zoom and puts its children
LoopExpandDropsLast ==
    /\ pc = "loop"
    /\ stack # <<>>
    /\ LET t == stack[Len(stack)]
           q == _get_quadrant_tiles(t)
       IN  /\ ~ReachedMaxZoom(t, max_zoom)
           /\ temp_tile' = t
           /\ quad_tile' = t
           /\ quadrant_tiles' = q
           /\ stack' = SubSeq(stack, 1, Len(stack) - 1)
                         \o [i \in 1..(Len(q) - 1) |-> q[order[i]]]
    /\ pops' = pops + 1
    /\ quad_calls' = quad_calls + 1
    /\ UNCHANGED <<pc, run, top_tile_dict, max_zoom, ret_format, order,
                   desired_tiles, first_result>>
    /\ UNCHANGED <<geo_vars, db_vars, px_vars>>

LoopExpand ==
    /\ pc = "loop"
    /\ stack # <<>>
    /\ LET t == stack[Len(stack)]
           q == _get_quadrant_tiles(t)
       IN  /\ ~ReachedMaxZoom(t, max_zoom)
           /\ temp_tile' = t
           /\ quad_tile' = t
           /\ quadrant_tiles' = q
           /\ stack' = SubSeq(stack, 1, Len(stack) - 1)
                         \o [i \in 1..Len(q) |-> q[order[i]]]
    /\ pops' = pops + 1
    /\ quad_calls' = quad_calls + 1
    /\ UNCHANGED <<pc, run, top_tile_dict, max_zoom, ret_format, order,
                   desired_tiles, first_result>>
    /\ UNCHANGED <<geo_vars, db_vars, px_vars>>

\* the stack is empty: return desired_tiles
Return ==
    /\ pc = "loop"
    /\ stack = <<>>
    /\ pc' = "done"
    /\ UNCHANGED <<run, top_tile_dict, max_zoom, ret_format, order, stack,
                   desired_tiles, temp_tile, quad_tile, quadrant_tiles, pops,
                   quad_calls, first_result>>
    /\ UNCHANGED <<geo_vars, db_vars, px_vars>>

Next == Call \/ LoopEmit \/ LoopExpand \/ Return

Spec == Init /\ [][Next]_vars

\* the interpreter runs the call to its end: a step that can be taken is taken
LiveSpec == Spec /\ WF_vars(Next)

----------------------------------------------------------------------------
(* A second invocation on the same arguments, as augment_geojson_building_area *)
(* and the tests make; the order in which the children of a popped tile are   *)
(* put on the stack is left open for it.                                      *)

Reinvoke ==
    /\ pc = "done"
    /\ run = 1
    /\ run' = 2
    /\ first_result' = desired_tiles
    /\ order' \in Orders
    /\ pc' = "start"
    /\ stack' = <<>>
    /\ desired_tiles' = <<>>
    /\ temp_tile' = NoTile
    /\ quad_tile' = NoTile
    /\ quadrant_tiles' = <<>>
    /\ pops' = 0
    /\ quad_calls' = 0
    /\ UNCHANGED <<top_tile_dict, max_zoom, ret_format>>
    /\ UNCHANGED <<geo_vars, db_vars, px_vars>>

NextOrder == Call \/ LoopEmit \/ LoopExpand \/ Return \/ Reinvoke

SpecOrder == Init /\ [][NextOrder]_vars

----------------------------------------------------------------------------
(* Two TM project documents are stripped and compared, as                  *)
(* test_geojson_stripping does.                                            *)

GeoInit ==
    /\ geo_pc = "start"
    /\ text_data_1 \in Documents
    /\ text_data_2 \in Documents
    /\ stripped_1 = NotRun
    /\ stripped_2 = NotRun
    /\ geoj_equal = "not run"

Strip1 ==
    /\ geo_pc = "start"
    /\ stripped_1' = get_stripped_geojson_tasks(text_data_1)
    /\ geo_pc' = "stripped_1"
    /\ UNCHANGED <<text_data_1, text_data_2, stripped_2, geoj_equal>>
    /\ UNCHANGED <<pyramid_vars, db_vars, px_vars>>

Strip2 ==
    /\ geo_pc = "stripped_1"
    /\ stripped_2' = get_stripped_geojson_tasks(text_data_2)
    /\ geo_pc' = "stripped_2"
    /\ UNCHANGED <<text_data_1, text_data_2, stripped_1, geoj_equal>>
    /\ UNCHANGED <<pyramid_vars, db_vars, px_vars>>

TestEquality ==
    /\ geo_pc = "stripped_2"
    /\ geoj_equal' = _test_geoj_equality(text_data_1, text_data_2)
    /\ geo_pc' = "done"
    /\ UNCHANGED <<text_data_1, text_data_2, stripped_1, stripped_2>>
    /\ UNCHANGED <<pyramid_vars, db_vars, px_vars>>

\* the pyramid part does not run
PyramidIdle ==
    /\ pc = "idle"
    /\ run = 1
    /\ top_tile_dict = [x |-> 0, y |-> 0, z |-> 0]
    /\ max_zoom = 0
    /\ ret_format = DefaultFormat
    /\ order = ListOrder
    /\ stack = <<>>
    /\ desired_tiles = <<>>
    /\ temp_tile = NoTile
    /\ quad_tile = NoTile
    /\ quadrant_tiles = <<>>
    /\ pops = 0
    /\ quad_calls = 0
    /\ first_result = <<>>

InitGeo == PyramidIdle /\ GeoInit /\ DbIdle /\ PxIdle
NextGeo == Strip1 \/ Strip2 \/ TestEquality
SpecGeo == InitGeo /\ [][NextGeo]_vars

----------------------------------------------------------------------------
(* get_total_tiles_building_area on a table: fed with the pyramid of a     *)
(* tile (augment_geojson_building_area, test_database_utils_integration)   *)
(* or with a list passed directly.                                         *)

\* child_tiles = get_tile_pyramid(tile_dict);
\* area_ml, area_osm = get_total_tiles_building_area(child_tiles, session)
TotalOfPyramid ==
    /\ pc = "done"
    /\ db_pc = "idle"
    /\ tile_ind_list' = desired_tiles
    /\ total_area' = get_total_tiles_building_area(desired_tiles, session)
    /\ db_pc' = "done"
    /\ UNCHANGED <<session, pyramid_vars, geo_vars, px_vars>>

TotalOfList ==
    /\ pc = "start"
    /\ db_pc = "idle"
    /\ \E l \in IndLists :
          /\ tile_ind_list' = l
          /\ total_area' = get_total_tiles_building_area(l, session)
    /\ db_pc' = "done"
    /\ UNCHANGED <<session, pyramid_vars, geo_vars, px_vars>>

InitDb ==
    /\ PyramidInit(DbInputs, {DefaultFormat})
    /\ GeoIdle
    /\ PxIdle
    /\ db_pc = "idle"
    /\ session \in Sessions
    /\ tile_ind_list = <<>>
    /\ total_area = <<0, 0>>

NextDb == Call \/ LoopEmit \/ LoopExpand \/ Return \/ TotalOfPyramid \/ TotalOfList
SpecDb == InitDb /\ [][NextDb]_vars

----------------------------------------------------------------------------
(* One call of get_pixel_area *)

InitPixel ==
    /\ PyramidIdle /\ GeoIdle /\ DbIdle
    /\ px_pc = "start"
    /\ latitude \in Latitudes
    /\ pixel_zoom \in Zooms
    /\ pixel_area = NoPixelArea

PixelArea ==
    /\ px_pc = "start"
    /\ pixel_area' = get_pixel_area(latitude, pixel_zoom)
    /\ px_pc' = "done"
    /\ UNCHANGED <<latitude, pixel_zoom, pyramid_vars, geo_vars, db_vars>>

NextPixel == PixelArea
SpecPixel == InitPixel /\ [][NextPixel]_vars

----------------------------------------------------------------------------
(* Properties of get_tile_pyramid and _get_quadrant_tiles *)

Delta == max_zoom - top_tile_dict.z
ValidCall == ValidDict(top_tile_dict) /\ max_zoom >= top_tile_dict.z

\* the identifier "z-x-y" written out
Ident(z, x, y) == ToString(z) \o "-" \o ToString(x) \o "-" \o ToString(y)

\* the identifiers of the block of the top tile at max_zoom
Block ==
    LET k == 2^Delta
    IN  {Ident(max_zoom, x, y) :
            x \in (top_tile_dict.x * k)..((top_tile_dict.x + 1) * k - 1),
            y \in (top_tile_dict.y * k)..((top_tile_dict.y + 1) * k - 1)}

Test16Truth ==
    {"18-23-1259", "18-23-1258", "18-22-1259", "18-22-1258",
     "18-23-1257", "18-23-1256", "18-22-1257", "18-22-1256",
     "18-21-1259", "18-21-1258", "18-20-1259", "18-20-1258",
     "18-21-1257", "18-21-1256", "18-20-1257", "18-20-1256"}

\* C1: for a valid top tile and max_zoom >= its zoom, the identifiers returned
\* (default format) are exactly those of the tiles of the top tile's block at
\* max_zoom: none outside, none missing; for (5, 314, 16) and max_zoom 18 they
\* are the 16 identifiers with x in 20..23 and y in 1256..1259.
C1_PyramidIsExactlyTheBlock ==
    (pc = "done" /\ ValidCall /\ ret_format = DefaultFormat) =>
        /\ SeqToSet(desired_tiles) = Block
        /\ (top_tile_dict = TestDict16 /\ max_zoom = 18) =>
               SeqToSet(desired_tiles) = Test16Truth

C1_Witness ==
    /\ pc = "done"
    /\ top_tile_dict = TestDict16
    /\ max_zoom = 18
    /\ ret_format = DefaultFormat
    /\ Len(desired_tiles) = 16

\* C2: for a valid top tile and max_zoom >= its zoom, the returned list has
\* exactly 4^(max_zoom - zoom) entries and no identifier occurs twice in it.
C2_CountAndNoDuplicates ==
    (pc = "done" /\ ValidCall) =>
        /\ Len(desired_tiles) = 4^Delta
        /\ \A i, j \in 1..Len(desired_tiles) :
               i # j => desired_tiles[i] # desired_tiles[j]

C2_Witness ==
    /\ pc = "done"
    /\ ValidCall
    /\ Delta = MaxMaxZoom
    /\ Len(desired_tiles) = 4^MaxMaxZoom

\* C3: when the top tile's zoom equals max_zoom, the call returns exactly one
\* identifier, the serialization of the input tile, _get_quadrant_tiles is
\* never called and nothing but the input tile is ever on the stack.
C3_NoExpansionAtMaxZoom ==
    (ValidDict(top_tile_dict) /\ top_tile_dict.z = max_zoom) =>
        /\ quad_calls = 0
        /\ quadrant_tiles = <<>>
        /\ Len(stack) <= 1
        /\ pc = "done" =>
              /\ desired_tiles = <<Format(ret_format, top_tile_dict)>>
              /\ ret_format = DefaultFormat =>
                    desired_tiles =
                        <<Ident(top_tile_dict.z, top_tile_dict.x, top_tile_dict.y)>>

C3_Witness ==
    /\ pc = "done"
    /\ ValidDict(top_tile_dict)
    /\ top_tile_dict.z = max_zoom
    /\ max_zoom > 0
    /\ Len(desired_tiles) = 1

\* C4: for a valid tile (x, y, z), _get_quadrant_tiles returns four pairwise
\* distinct tiles at zoom z+1 with TMS coordinates (2x, 2y), (2x, 2y+1),
\* (2x+1, 2y), (2x+1, 2y+1), as a set; for (1412, 3520, 17) these are
\* (2824,7040), (2824,7041), (2825,7040), (2825,7041) at zoom 18.
C4_FourDistinctChildren ==
    quad_calls > 0 =>
        /\ Len(quadrant_tiles) = 4
        /\ \A i, j \in 1..Len(quadrant_tiles) :
               i # j => quadrant_tiles[i] # quadrant_tiles[j]
        /\ \A i \in 1..Len(quadrant_tiles) :
               /\ quadrant_tiles[i] # AssertionError
               /\ quadrant_tiles[i].zoom = quad_tile.zoom + 1
        /\ {<<c.x, c.y>> : c \in SeqToSet(quadrant_tiles)} =
               {<<2 * quad_tile.x, 2 * quad_tile.y>>,
                <<2 * quad_tile.x, 2 * quad_tile.y + 1>>,
                <<2 * quad_tile.x + 1, 2 * quad_tile.y>>,
                <<2 * quad_tile.x + 1, 2 * quad_tile.y + 1>>}
        /\ quad_tile = [x |-> 1412, y |-> 3520, zoom |-> 17] =>
               SeqToSet(quadrant_tiles) =
                   {[x |-> 2825, y |-> 7041, zoom |-> 18],
                    [x |-> 2825, y |-> 7040, zoom |-> 18],
                    [x |-> 2824, y |-> 7041, zoom |-> 18],
                    [x |-> 2824, y |-> 7040, zoom |-> 18]}

C4_Witness ==
    /\ quad_calls = 1
    /\ quad_tile = [x |-> 1412, y |-> 3520, zoom |-> 17]
    /\ Len(quadrant_tiles) = 4

\* C5: called with max_zoom below the top tile's zoom (the tile itself being
\* valid), get_tile_pyramid fails: it emits no identifier and does not return.
C5_FailsBelowTopZoom ==
    (ValidDict(top_tile_dict) /\ max_zoom < top_tile_dict.z) =>
        (pc # "done" /\ desired_tiles = <<>>)

\* C6: given a tile whose zoom is outside [0, 19] or whose x or y is outside
\* [0, 2^zoom - 1], the call fails before any tile is pushed or emitted and
\* never returns.
C6_FailsOnInvalidTile ==
    ~ValidDict(top_tile_dict) =>
        (pc # "done" /\ pc # "loop" /\ stack = <<>> /\ desired_tiles = <<>>)

\* C7: for a valid top tile and max_zoom >= its zoom the loop reaches the empty
\* stack and returns, having popped (4^(d+1) - 1)/3 tiles for
\* d = max_zoom - zoom, and nothing is pushed once the stack has become empty.
C7_TerminatesAfterAllPops ==
    /\ (pc = "loop" /\ ValidCall) ~> (pc = "done")
    /\ []((pc = "done" /\ ValidCall) => pops = (4^(Delta + 1) - 1) \div 3)
    /\ [][(pc \in {"loop", "done"} /\ stack = <<>>) => stack' = <<>>]_vars

C7_Witness ==
    /\ pc = "done"
    /\ ValidCall
    /\ Delta = MaxMaxZoom
    /\ stack = <<>>
    /\ pops = (4^(MaxMaxZoom + 1) - 1) \div 3

\* C8: the set of identifiers returned depends only on the top tile, max_zoom
\* and the format: a second invocation on the same arguments, whatever the
\* order in which it pushes the children of a popped tile, returns the same set.
C8_SameSetWhateverTheOrder ==
    (run = 2 /\ pc = "done") => SeqToSet(desired_tiles) = SeqToSet(first_result)

C8_Witness ==
    /\ run = 2
    /\ pc = "done"
    /\ order = <<4, 3, 2, 1>>
    /\ Len(desired_tiles) = 4^MaxMaxZoom
    /\ desired_tiles # first_result

----------------------------------------------------------------------------
(* Properties of get_stripped_geojson_tasks and _test_geoj_equality *)

Features(doc) == doc.tasks.features
Count(f, t) == Cardinality({i \in 1..Len(f) : f[i] = t})
\* the same (taskId, geometry) pairs, each as often, in any order
SameTasks(d1, d2) ==
    /\ d1.has_tasks /\ d2.has_tasks
    /\ \A t \in Tasks : Count(Features(d1), t) = Count(Features(d2), t)
\* d2 is d1 with the taskId of one task changed
OneTaskIdChanged(d1, d2) ==
    /\ d1.has_tasks /\ d2.has_tasks
    /\ Len(Features(d1)) = Len(Features(d2))
    /\ \E i \in 1..Len(Features(d1)) :
          /\ Features(d1)[i].properties.taskId # Features(d2)[i].properties.taskId
          /\ Features(d1)[i].geometry = Features(d2)[i].geometry
          /\ \A j \in 1..Len(Features(d1)) : j # i => Features(d1)[j] = Features(d2)[j]

Newlines(s) == Cardinality({i \in 1..Len(s) : s[i] = "\n"})
RECURSIVE Lines(_)
Lines(s) ==
    IF \A i \in 1..Len(s) : s[i] # "\n" THEN <<s>>
    ELSE LET n == CHOOSE i \in 1..Len(s) : s[i] = "\n" /\ \A j \in 1..(i - 1) : s[j] # "\n"
         IN  <<SubSeq(s, 1, n - 1)>> \o Lines(SubSeq(s, n + 1, Len(s)))

OneTaskTruth ==
    <<"{", "\"", "t", "a", "s", "k", "I", "D", "\"", ":", " ", "1", "0", ",", " ",
      "\"", "g", "e", "o", "m", "e", "t", "r", "y", "\"", ":", " ",
      "{", "\"", "t", "y", "p", "e", "\"", ":", " ", "\"", "P", "o", "i", "n", "t", "\"", ",", " ",
      "\"", "c", "o", "o", "r", "d", "i", "n", "a", "t", "e", "s", "\"", ":", " ",
      "[", "1", ",", " ", "2", "]", "}", "}">>

\* C9: get_stripped_geojson_tasks emits one line per task, sorted
\* lexicographically; two documents with the same (taskId, geometry) pairs in
\* any task order give identical output and _test_geoj_equality is true for
\* them, while changing the taskId of one task gives a different output.
C9_StrippingIgnoresTaskOrder ==
    /\ (geo_pc = "stripped_1" /\ text_data_1.has_tasks) =>
          /\ Features(text_data_1) # <<>> =>
                /\ Len(Lines(stripped_1)) = Len(Features(text_data_1))
                /\ \A i \in 1..(Len(Features(text_data_1)) - 1) :
                      ~StrLess(Lines(stripped_1)[i + 1], Lines(stripped_1)[i])
          /\ Features(text_data_1) = <<>> => stripped_1 = <<>>
          /\ Features(text_data_1) =
                <<[properties |-> [taskId |-> 10],
                   geometry |-> [type |-> <<"P", "o", "i", "n", "t">>,
                                 coordinates |-> <<1, 2>>]]>> =>
                stripped_1 = OneTaskTruth
    /\ (geo_pc \in {"stripped_2", "done"} /\ SameTasks(text_data_1, text_data_2)) =>
          stripped_1 = stripped_2
    /\ (geo_pc = "done" /\ SameTasks(text_data_1, text_data_2)) =>
          geoj_equal = "True"
    /\ (geo_pc \in {"stripped_2", "done"} /\ OneTaskIdChanged(text_data_1, text_data_2)) =>
          stripped_1 # stripped_2

C9_Witness ==
    /\ geo_pc = "done"
    /\ SameTasks(text_data_1, text_data_2)
    /\ Len(Features(text_data_1)) = MaxTasks
    /\ text_data_1 # text_data_2
    /\ stripped_1 = stripped_2
    /\ geoj_equal = "True"

----------------------------------------------------------------------------
(* Properties of get_total_tiles_building_area *)

\* the largest primary key in the table
MaxId ==
    IF session = {} THEN 0
    ELSE CHOOSE m \in {row.id : row \in session} : \A row \in session : row.id <= m

\* what a row adds to the totals of a list
MlShare(row, l) == IF \E i \in 1..Len(l) : l[i] = row.tile_index THEN row.building_area_ml ELSE 0
OsmShare(row, l) == IF \E i \in 1..Len(l) : l[i] = row.tile_index THEN row.building_area_osm ELSE 0

RECURSIVE MlTotalUpTo(_, _)
MlTotalUpTo(n, l) ==
    IF n = 0 THEN 0
    ELSE MlTotalUpTo(n - 1, l)
         + (IF \E row \in session : row.id = n
            THEN MlShare(CHOOSE row \in session : row.id = n, l) ELSE 0)

RECURSIVE OsmTotalUpTo(_, _)
OsmTotalUpTo(n, l) ==
    IF n = 0 THEN 0
    ELSE OsmTotalUpTo(n - 1, l)
         + (IF \E row \in session : row.id = n
            THEN OsmShare(CHOOSE row \in session : row.id = n, l) ELSE 0)

\* C10: get_total_tiles_building_area returns (sum of building_area_ml, sum
\* of building_area_osm) over exactly the rows whose tile_index is in the
\* list: other rows add nothing, identifiers without a row add zero, an empty
\* match gives (0, 0); fed with the pyramid of tile (1412, 3520, 17) it sums
\* the four zoom-18 children rows and not the row of 18-1241-23141.
C10_TotalsOverListedTilesOnly ==
    db_pc = "done" =>
        /\ total_area = <<MlTotalUpTo(MaxId, tile_ind_list),
                          OsmTotalUpTo(MaxId, tile_ind_list)>>
        /\ (\A row \in session : row.tile_index \notin SeqToSet(tile_ind_list)) =>
               total_area = <<0, 0>>
        /\ (session = TestSession /\ top_tile_dict = TestDict17 /\ pc = "done"
               /\ tile_ind_list = desired_tiles) =>
               /\ SeqToSet(tile_ind_list) =
                     {"18-2825-7041", "18-2825-7040", "18-2824-7041", "18-2824-7040"}
               /\ total_area = <<10000, 700>>

C10_Witness ==
    /\ db_pc = "done"
    /\ pc = "done"
    /\ session = TestSession
    /\ top_tile_dict = TestDict17
    /\ tile_ind_list = desired_tiles
    /\ total_area = <<10000, 700>>

C10_WitnessNoMatch ==
    /\ db_pc = "done"
    /\ session # {}
    /\ tile_ind_list # <<>>
    /\ \A row \in session : row.tile_index \notin SeqToSet(tile_ind_list)

----------------------------------------------------------------------------
(* Properties of get_pixel_area *)

ValidPixelArguments ==
    /\ latitude >= -90 /\ latitude <= 90
    /\ pixel_zoom.kind = "int"
    /\ pixel_zoom.tenths \in {10 * z : z \in 0..19}

\* C11: get_pixel_area returns an area only when latitude is in [-90, 90] and
\* zoom is an integer in [0, 19]; for a latitude outside [-90, 90] (91), a
\* zoom outside [0, 19] (20) or a non-integer zoom it fails with a ValueError
\* and returns no value.
C11_PixelAreaValidatesArguments ==
    px_pc = "done" =>
        /\ pixel_area.kind \in {"area", "ValueError"}
        /\ pixel_area.kind = "area" => ValidPixelArguments
        /\ ~ValidPixelArguments => pixel_area.kind = "ValueError"
        /\ latitude = 91 => pixel_area = PixelValueError("latitude bounds")
        /\ (latitude = 0 /\ pixel_zoom = IntZoom(20)) =>
               pixel_area = PixelValueError("zoom bounds")
        /\ (latitude = 0 /\ pixel_zoom.kind = "float") =>
               pixel_area = PixelValueError("zoom type")

C11_Witness ==
    /\ px_pc = "done"
    /\ latitude = 0
    /\ pixel_zoom = IntZoom(20)
    /\ pixel_area.kind = "ValueError"

----------------------------------------------------------------------------
(* Invariants of the traversal loop of get_tile_pyramid *)

\* C12: in every state of the traversal the stack holds at most
\* 3 * (max_zoom - top zoom) + 1 tiles.
C12_StackAtMostThreeDeltaPlusOne ==
    pc = "loop" => Len(stack) <= 3 * Delta + 1

\* the same bound on the calls with max_zoom >= top zoom only, and a state
\* in which it is met with equality
StackBoundFromTopZoomUp ==
    (pc = "loop" /\ max_zoom >= top_tile_dict.z) => Len(stack) <= 3 * Delta + 1

StackBoundIsMet ==
    /\ pc = "loop"
    /\ Delta = MaxMaxZoom
    /\ Len(stack) = 3 * Delta + 1

\* the (x, y) at max_zoom of the tiles under a tile; none when the tile is
\* deeper than max_zoom
Leaves(x, y, z) ==
    IF z > max_zoom THEN {}
    ELSE LET k == 2^(max_zoom - z)
         IN  ((x * k)..((x + 1) * k - 1)) \X ((y * k)..((y + 1) * k - 1))

TopLeaves == Leaves(top_tile_dict.x, top_tile_dict.y, top_tile_dict.z)
LeafIdent(leaf) == Format(ret_format, [x |-> leaf[1], y |-> leaf[2], z |-> max_zoom])

\* how often a leaf is accounted for: once per stacked tile above it and once
\* per emitted identifier of it
TimesStacked(leaf) ==
    Cardinality({i \in 1..Len(stack) :
                    leaf \in Leaves(stack[i].x, stack[i].y, stack[i].zoom)})
TimesEmitted(leaf) ==
    Cardinality({j \in 1..Len(desired_tiles) : desired_tiles[j] = LeafIdent(leaf)})

StackedTilesInRange ==
    \A i \in 1..Len(stack) :
        /\ top_tile_dict.z <= stack[i].zoom /\ stack[i].zoom <= max_zoom
        /\ 0 <= stack[i].x /\ stack[i].x <= 2^(stack[i].zoom) - 1
        /\ 0 <= stack[i].y /\ stack[i].y <= 2^(stack[i].zoom) - 1

LeavesPartitioned ==
    /\ \A leaf \in TopLeaves : TimesStacked(leaf) + TimesEmitted(leaf) = 1
    /\ \A i \in 1..Len(stack) :
          Leaves(stack[i].x, stack[i].y, stack[i].zoom) \subseteq TopLeaves
    /\ \A j \in 1..Len(desired_tiles) :
          \E leaf \in TopLeaves : desired_tiles[j] = LeafIdent(leaf)

\* C13: in every state of the traversal every stacked tile has its zoom
\* between the top tile's zoom and max_zoom and x, y in [0, 2^zoom - 1], and
\* every max_zoom descendant of the top tile is either already emitted or
\* under exactly one stacked tile, never both; nothing else is emitted or
\* stacked.
C13_StackAndEmittedPartitionTheLeaves ==
    pc = "loop" => (StackedTilesInRange /\ LeavesPartitioned)

\* the same invariant on the calls with max_zoom >= top zoom only, and a
\* state in the middle of such a traversal
PartitionFromTopZoomUp ==
    (pc = "loop" /\ max_zoom >= top_tile_dict.z) =>
        (StackedTilesInRange /\ LeavesPartitioned)

PartitionMidway ==
    /\ pc = "loop"
    /\ Delta = MaxMaxZoom
    /\ Len(desired_tiles) > 4
    /\ Len(stack) > 4

====
